---- MODULE Spec2Model ----
(***************************************************************************)
(* IPAdapterPlus.py: the patch registry (set_model_patch_replace), the     *)
(* attention patch (CrossAttentionPatch), the checkpoint loader and        *)
(* IPAdapterApply.apply_ipadapter, as a state machine over a heap of patch *)
(* objects and the attn2 patch tables of the model clones.                 *)
(***************************************************************************)
EXTENDS Integers, Sequences, FiniteSets, TLC

VARIABLES
    heap,      \* the CrossAttentionPatch objects; the index is the object's identity
    attn2,     \* attn2[m]: model m's transformer_options["patches_replace"]["attn2"], key -> heap index
    calls,     \* history: calls[key] = set_model_patch_replace calls made on model 1 with key
    ipadapter, \* the IPADAPTER value last returned by load_ipadapter_model (NoCkpt before)
    adapter,   \* the IPAdapter object under construction and use (NoInst before)
    last,      \* how the last operation ended
    out        \* the calls of the operation under study: their inputs and what they returned

vars == <<heap, attn2, calls, ipadapter, adapter, last, out>>

\* ------------------------------------------------------------------ bounds
MaxModels == 3      \* model handles: the base model and the clones made by apply_ipadapter
MaxSlots == 2       \* set_model_patch_replace calls per key in SpecPatch
MaxBatch == 3       \* rows of a conditioning batch, and per-prompt diffusion batch
MaxSigma == 3       \* noise levels 0..MaxSigma
MaxEmbeds == 2      \* get_image_embeds calls on one IPAdapter object
MaxSteps == 3       \* steps of a sampling run
MaxSide == 4        \* height and width of a small latent
MaxQs == 8          \* query positions of a call on a latent

\* ------------------------------------------------------------------ values
\* Python's None, where a tensor may stand (mask=None).
None == [shape |-> <<>>, data |-> <<>>, dev |-> "none"]

\* A tensor: its shape, its rows (values or tags) and the device it lives on.
Tensor(shape, data, dev) == [shape |-> shape, data |-> data, dev |-> dev]

OffloadDevice == "cpu"
LoadDevice == "cuda"

\* The CPU tensor's .to(device): same shape and rows, on the device.
TensorTo(t, d) == [t EXCEPT !.dev = d]

\* ------------------------------------------------------------------ CrossAttentionPatch
\* patch_kwargs: number, weight, ip_layers, cond, uncond, weight_type, mask,
\* sigma_start, sigma_end, unfold_batch.
CrossAttentionPatch_BadInit(kw) ==
    [weights |-> <<kw.weight>>, ip_layers |-> <<kw.ip_layers>>,
     conds |-> <<kw.cond>>, unconds |-> <<kw.uncond>>, number |-> kw.number,
     weight_type |-> <<kw.weight_type>>,
     masks |-> IF kw.mask = None THEN <<>> ELSE <<kw.mask>>,
     sigma_start |-> <<kw.sigma_start>>, sigma_end |-> <<kw.sigma_end>>,
     unfold_batch |-> <<kw.unfold_batch>>,
     k_key |-> <<kw.number * 2 + 1, "to_k_ip">>,
     v_key |-> <<kw.number * 2 + 1, "to_v_ip">>,
     current_device |-> kw.cond.dev]

CrossAttentionPatch(kw) ==
    [weights |-> <<kw.weight>>, ip_layers |-> <<kw.ip_layers>>,
     conds |-> <<kw.cond>>, unconds |-> <<kw.uncond>>, number |-> kw.number,
     weight_type |-> <<kw.weight_type>>, masks |-> <<kw.mask>>,
     sigma_start |-> <<kw.sigma_start>>, sigma_end |-> <<kw.sigma_end>>,
     unfold_batch |-> <<kw.unfold_batch>>,
     k_key |-> <<kw.number * 2 + 1, "to_k_ip">>,
     v_key |-> <<kw.number * 2 + 1, "to_v_ip">>,
     current_device |-> kw.cond.dev]

\* A bug set_new_condition could have: the new slot replaces the last one.
set_new_condition_Replace(p, kw) ==
    LET n == Len(p.weights) IN
    [p EXCEPT !.weights[n] = kw.weight, !.ip_layers[n] = kw.ip_layers,
              !.conds[n] = kw.cond, !.unconds[n] = kw.uncond,
              !.masks[n] = kw.mask, !.weight_type[n] = kw.weight_type,
              !.sigma_start[n] = kw.sigma_start, !.sigma_end[n] = kw.sigma_end,
              !.unfold_batch[n] = kw.unfold_batch]

\* number is accepted and ignored: the patch keeps the number of its creation.
set_new_condition(p, kw) ==
    [p EXCEPT !.weights = Append(@, kw.weight),
              !.ip_layers = Append(@, kw.ip_layers),
              !.conds = Append(@, kw.cond),
              !.unconds = Append(@, kw.uncond),
              !.masks = Append(@, kw.mask),
              !.weight_type = Append(@, kw.weight_type),
              !.sigma_start = Append(@, kw.sigma_start),
              !.sigma_end = Append(@, kw.sigma_end),
              !.unfold_batch = Append(@, kw.unfold_batch)]

\* to(device_or_dtype): a dtype is ignored; a device moves every slot's tensors
\* in place. (current_device is not updated by the code.)
PatchTo(p, d) ==
    IF d \notin {OffloadDevice, LoadDevice} THEN p
    ELSE [p EXCEPT
            !.conds = [i \in 1..Len(p.conds) |-> TensorTo(p.conds[i], d)],
            !.unconds = [i \in 1..Len(p.conds) |-> TensorTo(p.unconds[i], d)],
            !.masks = [i \in 1..Len(p.conds) |->
                          IF p.masks[i] # None THEN TensorTo(p.masks[i], d) ELSE p.masks[i]],
            !.ip_layers = [i \in 1..Len(p.conds) |-> TensorTo(p.ip_layers[i], d)]]

\* ------------------------------------------------------------------ the registry
\* A world is the heap with the models' attn2 tables: [heap, attn2].
\* model.model_options["transformer_options"]["patches_replace"]["attn2"] is
\* created empty when missing, so a model without it is a model with an empty table.
set_model_patch_replace(w, m, kw, key) ==
    IF key \notin DOMAIN w.attn2[m]
    THEN [heap |-> Append(w.heap, CrossAttentionPatch(kw)),
          attn2 |-> [w.attn2 EXCEPT ![m] = @ @@ (key :> (Len(w.heap) + 1))]]
    ELSE [heap |-> [w.heap EXCEPT ![w.attn2[m][key]] = set_new_condition(@, kw)],
          attn2 |-> w.attn2]

\* ------------------------------------------------------------------ layer keys
\* The cross-attention blocks apply_ipadapter patches, in the order of its loops.
RECURSIVE BlockKeys(_, _, _)
BlockKeys(stage, ids, short) ==
    IF ids = <<>> THEN <<>>
    ELSE [i \in 1..(IF Head(ids) \in short THEN 2 ELSE 10) |-> <<stage, Head(ids), i - 1>>]
         \o BlockKeys(stage, Tail(ids), short)

InputIds == <<1, 2, 4, 5, 7, 8>>
OutputIds == <<3, 4, 5, 6, 7, 8, 9, 10, 11>>
InputLoopKeys == [i \in 1..Len(InputIds) |-> <<"input", InputIds[i]>>]
OutputLoopKeys == [i \in 1..Len(OutputIds) |-> <<"output", OutputIds[i]>>]
MiddleKey == <<"middle", 0>>

XLInputKeys == BlockKeys("input", <<4, 5, 7, 8>>, {4, 5})
XLOutputKeys == BlockKeys("output", <<0, 1, 2, 3, 4, 5>>, {3, 4, 5})
XLMiddleKeys == [i \in 1..10 |-> <<"middle", 0, i - 1>>]

\* for ...: set_model_patch_replace(work_model, patch_kwargs, key); patch_kwargs["number"] += 1
\* Returns the world and the patch_kwargs after the loop, and the log of the
\* loop: the key and the number of every call, in order.
\* (w1 and kw1 are bound to the values after round i; the loop goes on from them.)
Logged(key, number, rest) == [rest EXCEPT !.log = <<<<key, number>>>> \o @]

\* A bug the loop could have: the number is not advanced.
RECURSIVE InstallFrom_SameNumber(_, _, _, _, _)
InstallFrom_SameNumber(w, m, kw, keys, i) ==
    IF i > Len(keys) THEN [w |-> w, kw |-> kw, log |-> <<>>]
    ELSE CHOOSE r \in {Logged(keys[i], kw.number, InstallFrom_SameNumber(w1, m, kw, keys, i + 1)) :
                          w1 \in {set_model_patch_replace(w, m, kw, keys[i])}} : TRUE

RECURSIVE InstallFrom(_, _, _, _, _)
InstallFrom(w, m, kw, keys, i) ==
    IF i > Len(keys) THEN [w |-> w, kw |-> kw, log |-> <<>>]
    ELSE CHOOSE r \in {Logged(keys[i], kw.number, InstallFrom(w1, m, kw1, keys, i + 1)) :
                          w1 \in {set_model_patch_replace(w, m, kw, keys[i])},
                          kw1 \in {[kw EXCEPT !.number = @ + 1]}} : TRUE

InstallLoop(w, m, kw, keys) ==
    CHOOSE r \in {InstallFrom(w, m, kw, ks, 1) : ks \in {keys}} : TRUE

\* The next loop, going on from the world and the patch_kwargs that loop a left.
InstallNext(a, m, keys) ==
    CHOOSE r \in {[b EXCEPT !.log = a.log \o @] :
                     b \in {InstallLoop(a.w, m, a.kw, keys)}} : TRUE

\* The loops of apply_ipadapter, one after the other: the world after the last
\* and the log of all.
InstallAll(w, m, kw, is_sdxl) ==
    IF ~is_sdxl
    THEN CHOOSE r \in {[w |-> set_model_patch_replace(b.w, m, b.kw, MiddleKey),
                         log |-> Append(b.log, <<MiddleKey, b.kw.number>>)] :
                          b \in {InstallNext(a, m, OutputLoopKeys) :
                                    a \in {InstallLoop(w, m, kw, InputLoopKeys)}}} : TRUE
    ELSE CHOOSE r \in {[w |-> c.w, log |-> c.log] :
                          c \in {InstallNext(b, m, XLMiddleKeys) :
                                    b \in {InstallNext(a, m, XLOutputKeys) :
                                              a \in {InstallLoop(w, m, kw, XLInputKeys)}}}} : TRUE

\* ------------------------------------------------------------------ model.clone()
\* The host's ModelPatcher.clone(): the clone gets its own copy of model_options,
\* hence of the attn2 table and of every patch object in it (the isolated copy of
\* the patch table the design requires). The copies are appended to the heap in
\* the order of the originals; the clone is the new last model.
Range(f) == {f[x] : x \in DOMAIN f}

\* The copies are appended in the order of the originals' identities: orig lists
\* the table's patches, and the copy of orig[i] is heap entry Len(heap) + i.
InTable(t, p) == \E k \in DOMAIN t : t[k] = p

CopyTable(w, t, orig) ==
    [heap |-> w.heap \o [i \in 1..Len(orig) |-> w.heap[orig[i]]],
     attn2 |-> Append(w.attn2,
                  [k \in DOMAIN t |->
                      Len(w.heap) + Cardinality({i \in 1..Len(orig) : orig[i] <= t[k]})])]

clone(w, m) ==
    CopyTable(w, w.attn2[m],
              SelectSeq([i \in 1..Len(w.heap) |-> i], LAMBDA p : InTable(w.attn2[m], p)))

\* ------------------------------------------------------------------ checkpoint files
\* A tensor of a checkpoint is its shape. Keys of the per-layer namespace are
\* <<n, name, "weight">> for "n.name.weight"; keys of the projection namespace
\* are strings.
NonXLLayers == Len(InputLoopKeys) + Len(OutputLoopKeys) + 1
XLLayers == Len(XLInputKeys) + Len(XLOutputKeys) + Len(XLMiddleKeys)

\* The per-layer namespace of a checkpoint for n layers of context width dim:
\* (2i+1).to_k_ip.weight and (2i+1).to_v_ip.weight, each of shape (channels, dim).
KVWeights(n, dim, channels) ==
    [k \in {<<2 * i + 1, side, "weight">> : i \in 0..(n - 1), side \in {"to_k_ip", "to_v_ip"}}
        |-> <<channels, dim>>]

LoraWeights == (<<0, "to_q_lora.down", "weight">> :> <<128, 320>>)

LinearProj(xd, ed, t) ==
    [k \in {"proj.weight", "proj.bias", "norm.weight", "norm.bias"} |->
        IF k = "proj.weight" THEN <<t * xd, ed>>
        ELSE IF k = "proj.bias" THEN <<t * xd>> ELSE <<xd>>]

\* MLPProjModel(cross_attention_dim=xd, clip_embeddings_dim=ed).state_dict()
MLPProj(xd, ed) ==
    [k \in {"proj.0.weight", "proj.0.bias", "proj.2.weight", "proj.2.bias",
            "proj.3.weight", "proj.3.bias"} |->
        IF k = "proj.0.weight" THEN <<ed, ed>>
        ELSE IF k = "proj.0.bias" THEN <<ed>>
        ELSE IF k = "proj.2.weight" THEN <<xd, ed>> ELSE <<xd>>]

\* MLPProjModelFaceId(cross_attention_dim=xd, id_embeddings_dim=idd, num_tokens=t).state_dict()
FaceIdProj(xd, idd, t) ==
    [k \in {"proj.0.weight", "proj.0.bias", "proj.2.weight", "proj.2.bias",
            "norm.weight", "norm.bias"} |->
        IF k = "proj.0.weight" THEN <<idd * 2, idd>>
        ELSE IF k = "proj.0.bias" THEN <<idd * 2>>
        ELSE IF k = "proj.2.weight" THEN <<xd * t, idd * 2>>
        ELSE IF k = "proj.2.bias" THEN <<xd * t>> ELSE <<xd>>]

\* Resampler(dim, num_queries, embedding_dim, output_dim).state_dict(): the
\* learned queries, the input and output projections and the output norm.
ResamplerProj(dim, queries, ed, od) ==
    [k \in {"latents", "proj_in.weight", "proj_out.weight", "norm_out.weight"} |->
        IF k = "latents" THEN <<1, queries, dim>>
        ELSE IF k = "proj_in.weight" THEN <<dim, ed>>
        ELSE IF k = "proj_out.weight" THEN <<od, dim>> ELSE <<od>>]

\* What torch.load gives for a .bin checkpoint: the two namespaces, nested.
Nested(image_proj, ip_adapter) == [image_proj |-> image_proj, ip_adapter |-> ip_adapter]

\* What a .safetensors checkpoint holds: one flat mapping "namespace.key" -> tensor.
Flat(nested) ==
    [k \in UNION {{<<ns, key>> : key \in DOMAIN nested[ns]} : ns \in DOMAIN nested}
        |-> nested[k[1]][k[2]]]

SD15 == Nested(LinearProj(768, 1024, 4), KVWeights(NonXLLayers, 768, 320))
SD15Plus == Nested(ResamplerProj(768, 16, 1280, 768), KVWeights(NonXLLayers, 768, 320))
SD15Full == Nested(MLPProj(768, 1280), KVWeights(NonXLLayers, 768, 320))
SD15FaceId == Nested(FaceIdProj(768, 512, 4), KVWeights(NonXLLayers, 768, 320) @@ LoraWeights)
SDXL == Nested(LinearProj(2048, 1280, 4), KVWeights(XLLayers, 2048, 640))

\* The files of the models directory: valid checkpoints in both formats, a file
\* with projection weights only, a file of another kind of model, a .bin file
\* whose per-layer namespace is empty.
Files ==
    <<[name |-> "sd15.safetensors", safetensors |-> TRUE, data |-> Flat(SD15)],
     [name |-> "plus.safetensors", safetensors |-> TRUE, data |-> Flat(SD15Plus)],
     [name |-> "full.bin", safetensors |-> FALSE, data |-> SD15Full],
     [name |-> "faceid.bin", safetensors |-> FALSE, data |-> SD15FaceId],
     [name |-> "sdxl.safetensors", safetensors |-> TRUE, data |-> Flat(SDXL)],
     [name |-> "projonly.safetensors", safetensors |-> TRUE,
      data |-> Flat(("image_proj" :> LinearProj(768, 1024, 4)))],
     [name |-> "projonly.bin", safetensors |-> FALSE,
      data |-> ("image_proj" :> LinearProj(768, 1024, 4))],
     [name |-> "other.safetensors", safetensors |-> TRUE,
      data |-> Flat(("model" :> LinearProj(768, 1024, 4)))],
     [name |-> "emptykv.bin", safetensors |-> FALSE,
      data |-> Nested(LinearProj(768, 1024, 4), <<>>)]>>

\* ------------------------------------------------------------------ load_ipadapter_model
NoCkpt == [name |-> "", model |-> <<>>]

\* The regrouping of a flat .safetensors mapping into the two namespaces.
st_model(model) ==
    [ns \in {"image_proj", "ip_adapter"} |->
        [key \in {k[2] : k \in {x \in DOMAIN model : x[1] = ns}} |-> model[<<ns, key>>]]]

\* A bug the check could have: only the presence of the namespace is tested.
load_ipadapter_model_KeyOnly(file) ==
    LET model == IF file.safetensors THEN st_model(file.data) ELSE file.data
    IN IF "ip_adapter" \notin DOMAIN model
       THEN [ok |-> FALSE, error |-> "invalid IPAdapter model", model |-> <<>>]
       ELSE [ok |-> TRUE, error |-> "", model |-> model]

load_ipadapter_model(file) ==
    LET model == IF file.safetensors THEN st_model(file.data) ELSE file.data
    IN IF "ip_adapter" \notin DOMAIN model \/ DOMAIN model["ip_adapter"] = {}
       THEN [ok |-> FALSE, error |-> "invalid IPAdapter model", model |-> <<>>]
       ELSE [ok |-> TRUE, error |-> "", model |-> model]

\* The file of a name, and what the loader returns for each file.
FileIndex(name) == CHOOSE i \in 1..Len(Files) : Files[i].name = name

FileNamed(name) == Files[FileIndex(name)]

Loaded == [i \in 1..Len(Files) |-> load_ipadapter_model(Files[i])]

\* ------------------------------------------------------------------ IPAdapter
\* The state dict of the projection module __init__ builds: init_proj_faceid,
\* init_proj_plus (MLPProjModel when is_full, else Resampler) or init_proj.
image_proj_model(xd, od, ed, t, is_plus, is_full, is_faceid) ==
    IF is_faceid THEN [variant |-> "faceid", state_dict |-> FaceIdProj(xd, 512, t)]
    ELSE IF is_plus
         THEN IF is_full THEN [variant |-> "full", state_dict |-> MLPProj(xd, ed)]
              ELSE [variant |-> "resampler", state_dict |-> ResamplerProj(xd, t, ed, od)]
         ELSE [variant |-> "linear", state_dict |-> LinearProj(xd, ed, t)]

\* load_state_dict (strict): the keys and every shape must agree.
load_state_dict(module, weights) ==
    /\ DOMAIN weights = DOMAIN module.state_dict
    /\ \A k \in DOMAIN weights : weights[k] = module.state_dict[k]

\* A bug __init__ could have: the weights are not loaded (and not compared) at
\* construction, so a mismatch shows only when the module is first used.
IPAdapter_LazyLoad(ipadapter_model, xd, od, ed, t, is_plus, is_full, is_faceid) ==
    LET module == image_proj_model(xd, od, ed, t, is_plus, is_full, is_faceid)
    IN [ok |-> TRUE, variant |-> module.variant,
        loaded |-> load_state_dict(module, ipadapter_model["image_proj"]),
        xd |-> xd, od |-> od, ed |-> ed, t |-> t, image_proj_model |-> TRUE]

\* IPAdapter.__init__: builds the module, then loads ipadapter_model["image_proj"]
\* into it; load_state_dict raises on a mismatch. image_proj_model tells whether
\* the object has the attribute.
IPAdapter(ipadapter_model, xd, od, ed, t, is_plus, is_full, is_faceid) ==
    LET module == image_proj_model(xd, od, ed, t, is_plus, is_full, is_faceid)
    IN [ok |-> load_state_dict(module, ipadapter_model["image_proj"]),
        variant |-> module.variant, loaded |-> TRUE,
        xd |-> xd, od |-> od, ed |-> ed, t |-> t, image_proj_model |-> TRUE]

\* The shape of image_proj_model(clip_embed): the forward of each variant.
\*   linear, faceid: proj(...).reshape(-1, num_tokens, cross_attention_dim)
\*   full:           proj(image_embeds), token per input token
\*   resampler:      num_queries tokens of output_dim
Numel(shape) == IF Len(shape) = 2 THEN shape[1] * shape[2] ELSE shape[1] * shape[2] * shape[3]

forward_shape(inst, in) ==
    IF inst.variant \in {"linear", "faceid"}
    THEN <<(Numel(in) \div in[Len(in)]) , inst.t, inst.xd>>
    ELSE IF inst.variant = "full" THEN <<in[1], in[2], inst.xd>>
    ELSE <<in[1], inst.t, inst.od>>

\* No IPAdapter object.
NoInst == [ok |-> FALSE, variant |-> "", loaded |-> FALSE,
           xd |-> 0, od |-> 0, ed |-> 0, t |-> 0, image_proj_model |-> FALSE]

\* self.image_proj_model(x): a tensor of the forward's shape; the tokens of a
\* row are a function of the row of x they are projected from and of nothing else.
forward(self, x) ==
    LET shape == forward_shape(self, x.shape)
    IN Tensor(shape, [i \in 1..shape[1] |-> <<"tokens", x.data[i]>>], x.dev)

\* get_image_embeds(clip_embed, clip_embed_zeroed, device, dtype): both embeds
\* through self.image_proj_model, then del self.image_proj_model. Without the
\* attribute the first line raises AttributeError.
get_image_embeds(self, clip_embed, clip_embed_zeroed) ==
    IF ~self.image_proj_model
    THEN [ok |-> FALSE, error |-> "AttributeError", self |-> self,
          image_prompt_embeds |-> None, uncond_image_prompt_embeds |-> None]
    ELSE [ok |-> TRUE, error |-> "", self |-> [self EXCEPT !.image_proj_model = FALSE],
          image_prompt_embeds |-> forward(self, TensorTo(clip_embed, LoadDevice)),
          uncond_image_prompt_embeds |-> forward(self, TensorTo(clip_embed_zeroed, LoadDevice))]

\* ------------------------------------------------------------------ the host's collaborators
\* The vision encoders: the width of image_embeds and the shape of the
\* penultimate hidden states.
Encoders ==
    {[name |-> "ViT-H", image_embeds |-> 1024, hidden |-> 1280, tokens |-> 257],
     [name |-> "ViT-bigG", image_embeds |-> 1280, hidden |-> 1664, tokens |-> 257]}

\* model_sampling.percent_to_sigma: the noise level at a fraction of the run,
\* in percent: everything at 0, nothing at 100, decreasing in between.
SigmaInf == 999999999

percent_to_sigma(percent) ==
    IF percent <= 0 THEN SigmaInf
    ELSE IF percent >= 100 THEN 0
    ELSE (MaxSigma * (100 - percent)) \div 100

\* To_KV(state_dict): one bias-free linear map per checkpoint entry, under the
\* key with ".weight" dropped ("." -> "_" changes no key that is looked up); the
\* weight of the map is the entry. The module is the checkpoint's (named by it),
\* on the device it was built on.
To_KV(ip) == [state_dict |-> ip.name, dev |-> OffloadDevice]

to_kvs(state_dict) ==
    [k \in {<<x[1], x[2]>> : x \in DOMAIN state_dict} |-> state_dict[<<k[1], k[2], "weight">>]]

\* to_kvs of the To_KV module of every checkpoint that loads.
ip_layers_to_kvs ==
    [i \in 1..Len(Files) |->
        IF Loaded[i].ok THEN to_kvs(Loaded[i].model["ip_adapter"]) ELSE <<>>]

\* ------------------------------------------------------------------ apply_ipadapter
\* The request of one apply: weight, weight_type, attn_mask, start_at and end_at
\* (percent), unfold_batch, clip_vision (an encoder), images (the batch of the
\* reference image) and faces (what the face analysis finds on it).
Failure(stage, error, warning) ==
    [ok |-> FALSE, stage |-> stage, error |-> error, warning |-> warning,
     kw |-> <<>>, is_sdxl |-> FALSE, variant |-> ""]

\* Lines 509-516: the variant and the widths, read off the checkpoint's keys.
detect(ip) ==
    LET is_full == "proj.0.weight" \in DOMAIN ip.model["image_proj"]
        is_faceid == <<0, "to_q_lora.down", "weight">> \in DOMAIN ip.model["ip_adapter"]
        is_plus == (is_full \/ "latents" \in DOMAIN ip.model["image_proj"]) /\ ~is_faceid
        output_cross_attention_dim == ip.model["ip_adapter"][<<1, "to_k_ip", "weight">>][2]
        is_sdxl == output_cross_attention_dim = 2048
    IN [is_full |-> is_full, is_faceid |-> is_faceid, is_plus |-> is_plus,
        output_cross_attention_dim |-> output_cross_attention_dim, is_sdxl |-> is_sdxl,
        cross_attention_dim |-> IF is_plus /\ is_sdxl THEN 1280 ELSE output_cross_attention_dim,
        clip_extra_context_tokens |-> IF is_plus THEN 16 ELSE 4]

\* Lines 523-549: the shape of clip_embed (and of clip_embed_zeroed): one
\* identity embedding per face, the penultimate hidden states or the image embeds.
clip_embed_shape(d, a) ==
    IF d.is_faceid THEN <<a.faces, 1, 512>>
    ELSE IF d.is_plus THEN <<a.images, a.clip_vision.tokens, a.clip_vision.hidden>>
    ELSE <<a.images, a.clip_vision.image_embeds>>

\* Lines 551-563: ipadapter_inst = IPAdapter(ipadapter, ...).
NewIPAdapter(ip, d, clip_embed) ==
    IPAdapter(ip.model, d.cross_attention_dim, d.output_cross_attention_dim,
              clip_embed[Len(clip_embed)], d.clip_extra_context_tokens,
              d.is_plus, d.is_full, d.is_faceid)

\* Lines 506-591: everything before the model is cloned. Either a failure, or
\* the patch_kwargs (number 0) with the layout to patch.
prepare(ip, a) ==
    IF "image_proj" \notin DOMAIN ip.model
    THEN Failure("detect", "KeyError", FALSE)
    ELSE IF <<1, "to_k_ip", "weight">> \notin DOMAIN ip.model["ip_adapter"]
    THEN Failure("detect", "KeyError", FALSE)
    ELSE
    LET d == detect(ip)
        warning == d.is_faceid /\ a.faces = 0
    IN
    \* torch.stack over the detected faces: an empty list raises
    IF d.is_faceid /\ a.faces = 0
    THEN Failure("embed", "RuntimeError: stack expects a non-empty TensorList", warning)
    ELSE
    LET clip_embed == clip_embed_shape(d, a)
        ipadapter_inst == NewIPAdapter(ip, d, clip_embed)
    IN
    IF ~ipadapter_inst.ok
    THEN Failure("IPAdapter.__init__", "RuntimeError: size mismatch", warning)
    ELSE IF ~ipadapter_inst.loaded
    THEN Failure("get_image_embeds", "RuntimeError: size mismatch", warning)
    ELSE
    LET shape == forward_shape(ipadapter_inst, clip_embed)
        image_prompt_embeds ==
            Tensor(shape, [i \in 1..shape[1] |-> <<"cond", i>>], OffloadDevice)
        uncond_image_prompt_embeds ==
            Tensor(shape, [i \in 1..shape[1] |-> <<"uncond", i>>], OffloadDevice)
    IN [ok |-> TRUE, stage |-> "", error |-> "", warning |-> warning,
        kw |-> [number |-> 0, weight |-> a.weight, ip_layers |-> To_KV(ip),
                cond |-> image_prompt_embeds, uncond |-> uncond_image_prompt_embeds,
                weight_type |-> a.weight_type,
                mask |-> IF a.attn_mask # None THEN TensorTo(a.attn_mask, OffloadDevice)
                         ELSE a.attn_mask,
                sigma_start |-> percent_to_sigma(a.start_at),
                sigma_end |-> percent_to_sigma(a.end_at),
                unfold_batch |-> a.unfold_batch],
        is_sdxl |-> d.is_sdxl, variant |-> ipadapter_inst.variant]

\* Lines 593-618 on the prepared patch_kwargs p, with work_model the last model
\* of world c: The new world, how the preparation ended, the model returned
\* and the log of the set_model_patch_replace calls.
PatchLayers(c, work_model, p) ==
    CHOOSE r \in {[w |-> i.w, p |-> p, model |-> work_model, log |-> i.log] :
                     i \in {InstallAll(c, work_model, p.kw, p.is_sdxl)}} : TRUE

Raise(w, p) == [w |-> w, p |-> p, model |-> 0, log |-> <<>>]

\* A bug apply_ipadapter could have: the layers are patched on the input model.
apply_ipadapter_InPlace(w, ip, m, a) ==
    CHOOSE r \in {IF ~p.ok THEN Raise(w, p) ELSE PatchLayers(w, m, p) :
                     p \in {prepare(ip, a)}} : TRUE

\* apply_ipadapter(ipadapter, model, ...): an error of the preparation ends the
\* call; else work_model = model.clone() and every layer is patched on it.
\* (p and c are bound to the values of the preparation and of the clone.)
apply_ipadapter(w, ip, m, a) ==
    CHOOSE r \in {IF ~p.ok THEN Raise(w, p) ELSE PatchLayers(c, Len(c.attn2), p) :
                     p \in {prepare(ip, a)}, c \in {clone(w, m)}} : TRUE

\* ------------------------------------------------------------------ the registry's state machine
ApplyArgs ==
    {[weight |-> 1, weight_type |-> "original", attn_mask |-> None,
      start_at |-> 0, end_at |-> 100, unfold_batch |-> FALSE,
      clip_vision |-> e, images |-> 1, faces |-> f] : e \in Encoders, f \in {0, 1}}

Idle == [op |-> "init", ok |-> TRUE, stage |-> "", error |-> "", warning |-> FALSE,
         model |-> 0, src |-> 0, file |-> "", faceid |-> FALSE, faces |-> 0,
         variant |-> "", installed |-> <<>>]

Init ==
    /\ heap = <<>>
    /\ attn2 = <<<<>>>>
    /\ calls = <<>>
    /\ ipadapter = NoCkpt
    /\ adapter = NoInst
    /\ last = Idle
    /\ out = <<>>

\* The loader node: on success the checkpoint is what the apply nodes receive.
Load(file) ==
    LET r == load_ipadapter_model(file)
    IN /\ ipadapter' = IF r.ok THEN [name |-> file.name, model |-> r.model] ELSE ipadapter
       /\ last' = [Idle EXCEPT !.op = "load", !.ok = r.ok, !.error = r.error,
                               !.stage = IF r.ok THEN "" ELSE "load", !.file = file.name]
       /\ UNCHANGED <<heap, attn2, calls, adapter, out>>

\* The apply node, on any model made so far and the loaded checkpoint.
Apply(m, a) ==
    /\ ipadapter.name # ""
    /\ Len(attn2) < MaxModels
    /\ \E r \in {apply_ipadapter([heap |-> heap, attn2 |-> attn2], ipadapter, m, a)} :
          /\ heap' = r.w.heap
          /\ attn2' = r.w.attn2
          /\ last' = [op |-> "apply", ok |-> r.p.ok, stage |-> r.p.stage,
                      error |-> r.p.error, warning |-> r.p.warning, model |-> r.model,
                      src |-> m, file |-> ipadapter.name,
                      faceid |-> <<0, "to_q_lora.down", "weight">>
                                    \in DOMAIN ipadapter.model["ip_adapter"],
                      faces |-> a.faces, variant |-> r.p.variant, installed |-> r.log]
    /\ UNCHANGED <<calls, ipadapter, adapter, out>>

Next ==
    \/ \E i \in 1..Len(Files) : Load(Files[i])
    \/ \E m \in 1..Len(attn2), a \in ApplyArgs : Apply(m, a)

Spec == Init /\ [][Next]_vars

\* ------------------------------------------------------------------ the adapter object's state machine
\* The IPAdapter object built for the loaded checkpoint, and the calls of its
\* get_image_embeds; out is the sequence of these calls.
\* The embeds of a batch of b images for the object: row i is image i, or zero.
EmbedsFor(self, b, zeroed) ==
    LET shape == IF self.variant = "linear" THEN <<b, self.ed>>
                 ELSE IF self.variant = "faceid" THEN <<b, 1, 512>>
                 ELSE <<b, (CHOOSE e \in Encoders : e.hidden = self.ed).tokens, self.ed>>
    IN Tensor(shape, [i \in 1..b |-> IF zeroed THEN 0 ELSE i], OffloadDevice)

\* ipadapter_inst = IPAdapter(...) for the loaded checkpoint and an encoder
\* (lines 509-563); a new object has no calls.
Construct(a) ==
    /\ ipadapter.name # ""
    /\ \E d \in {detect(ipadapter)} :
          /\ d.is_faceid => a.faces > 0
          /\ \E o \in {NewIPAdapter(ipadapter, d, clip_embed_shape(d, a))} :
                /\ adapter' = IF o.ok THEN o ELSE NoInst
                /\ last' = [Idle EXCEPT !.op = "IPAdapter", !.ok = o.ok,
                                        !.stage = IF o.ok THEN "" ELSE "IPAdapter.__init__",
                                        !.error = IF o.ok THEN "" ELSE "RuntimeError: size mismatch",
                                        !.file = ipadapter.name]
    /\ out' = <<>>
    /\ UNCHANGED <<heap, attn2, calls, ipadapter>>

\* ipadapter_inst.get_image_embeds(clip_embed, clip_embed_zeroed, device, dtype)
GetImageEmbeds(b, zeroed) ==
    /\ adapter.ok
    /\ Len(out) < MaxEmbeds
    /\ \E r \in {get_image_embeds(adapter, EmbedsFor(adapter, b, zeroed),
                                    EmbedsFor(adapter, b, TRUE))} :
          /\ adapter' = r.self
          /\ out' = Append(out, [clip_embed |-> EmbedsFor(adapter, b, zeroed),
                                  clip_embed_zeroed |-> EmbedsFor(adapter, b, TRUE),
                                  ok |-> r.ok, error |-> r.error,
                                  image_prompt_embeds |-> r.image_prompt_embeds,
                                  uncond_image_prompt_embeds |-> r.uncond_image_prompt_embeds])
          /\ last' = [Idle EXCEPT !.op = "get_image_embeds", !.ok = r.ok, !.error = r.error,
                                  !.file = ipadapter.name]
    /\ UNCHANGED <<heap, attn2, calls, ipadapter>>

NextProject ==
    \/ \E i \in 1..Len(Files) : Load(Files[i])
    \/ \E a \in ApplyArgs : Construct(a)
    \/ \E b \in 1..MaxBatch, zeroed \in BOOLEAN : GetImageEmbeds(b, zeroed)

SpecProject == Init /\ [][NextProject]_vars

\* ------------------------------------------------------------------ float16 tensors
\* dtype is torch.float16 (should_use_fp16()): a number is an integer count of
\* 2^-24, the spacing of the smallest float16 values, so that every float16
\* value in (-128, 128) is one integer and nothing else is.
One == 16777216

\* The spacing of float16 around a / den (a >= 0): 11 significant bits, so
\* the least power of two u with a / den < 2048 * u.
Spacings == {1, 2, 4, 8, 16, 32, 64, 128, 256, 512, 1024, 2048, 4096, 8192, 16384, 32768, 65536}

Ulp(a, den) ==
    CHOOSE u \in Spacings : a \div (2048 * den) < u /\ u \div 2 <= a \div (2048 * den)

\* Round a / den to a multiple of u: to nearest, ties to even.
Nearest(a, den, u) ==
    CHOOSE r \in {(q + (IF 2 * (a - q * den * u) > den * u THEN 1
                        ELSE IF 2 * (a - q * den * u) = den * u THEN q % 2 ELSE 0)) * u :
                     q \in {a \div (den * u)}} : TRUE

\* num / den (den > 0) rounded to float16.
Round(num, den) ==
    IF num < 0 THEN 0 - Nearest(0 - num, den, Ulp(0 - num, den))
    ELSE Nearest(num, den, Ulp(num, den))

\* A Python float (weight, channel_penalty) is a fraction <<num, den>>.
\* tensor * scalar, elementwise tensor * tensor, tensor + tensor, each rounded.
Mul(x, f) == Round(x * f[1], f[2])
Plus(x, y) == Round(x + y, 1)

\* y / One in lowest terms (y a float16 value, so the denominator is a power of two).
RECURSIVE Fraction(_, _)
Fraction(y, den) ==
    IF y = 0 THEN <<0, 1>>
    ELSE IF y % 2 = 0 /\ den % 2 = 0 THEN Fraction(y \div 2, den \div 2)
    ELSE <<y, den>>

Times(x, y) == Mul(x, Fraction(y, One))

\* v with the name x in F, and a sequence given index by index: the value is
\* worked out once, where it is defined.
With(v, F(_)) == CHOOSE r \in {F(x) : x \in {v}} : TRUE

Seq1(f) == f \o <<>>

\* A row of a batch is a sequence of values (one per token or position, one
\* channel); a batch is a sequence of rows.
MapRows(batch, Op(_)) ==
    Seq1([b \in 1..Len(batch) |-> Seq1([t \in 1..Len(batch[b]) |-> Op(batch[b][t])])])

RECURSIVE Sum(_)
Sum(seq) == IF seq = <<>> THEN 0 ELSE Head(seq) + Sum(Tail(seq))

\* torch.mean(x, dim=1, keepdim=True): the mean over the tokens of each row.
Mean(row) == Round(Sum(row), Len(row))

\* optimized_attention(q, k, v, heads), one head of one channel: for every
\* query position the softmax over the tokens of q * k, applied to v. The
\* logits are counted in units of ln 2, so the softmax weights are powers of
\* two: equal logits weigh every token alike. k and v are reshaped with q's
\* batch, row for row.
Pow2(n) == IF n <= 0 THEN 1 ELSE IF n = 1 THEN 2 ELSE IF n = 2 THEN 4
           ELSE IF n = 3 THEN 8 ELSE 16

Logit(q, k) == (q * k) \div One

Min(S) == CHOOSE x \in S : \A y \in S : x <= y

Softmax(q, krow) ==
    LET lo == Min({Logit(q, krow[t]) : t \in 1..Len(krow)})
    IN [t \in 1..Len(krow) |-> Pow2(Logit(q, krow[t]) - lo)]

Attend(q, krow, vrow) ==
    LET w == Softmax(q, krow)
    IN Round(Sum([t \in 1..Len(krow) |-> w[t] * vrow[t]]), Sum(w))

optimized_attention(q, k, v) ==
    Seq1([b \in 1..Len(q) |-> Seq1([pos \in 1..Len(q[b]) |-> Attend(q[b][pos], k[b], v[b])])])

\* ------------------------------------------------------------------ CrossAttentionPatch.__call__
\* A token of a conditioning row is a pair of values; the key projection of
\* layer n reads the first with weight 2n+1, the value projection the second.
Linear(key, token) ==
    IF key[2] = "to_k_ip" THEN Round(key[1] * token[1], 1) ELSE Round(key[1] * token[2], 1)

\* ip_layers.to_kvs[key](x): every token of every row through the linear map.
Project(key, x) == MapRows(x, LAMBDA token : Linear(key, token))

\* x[-1:].repeat(m - len, 1, 1) appended: the last row again, up to m rows.
Pad_First(x, m) == x \o [i \in 1..(m - Len(x)) |-> x[1]]

Pad(x, m) == x \o [i \in 1..(m - Len(x)) |-> x[Len(x)]]

\* Lines 340-347 (and 408-413 for the mask): to exactly batch_prompt rows.
Fit(x, batch_prompt) ==
    IF Len(x) < batch_prompt THEN Pad(x, batch_prompt)
    ELSE IF Len(x) > batch_prompt THEN SubSeq(x, 1, batch_prompt)
    ELSE x

\* Python's None for ad_params, or for its sub_idxs.
NoAd == [sub_idxs |-> <<>>, full_length |-> 0]

\* A bug the window could have: past the last row the indices start over at
\* the first one.
Window_Wrap(x, ad) ==
    Seq1([i \in 1..Len(ad.sub_idxs) |-> x[(ad.sub_idxs[i] % Len(x)) + 1]])

\* Lines 322-338: the rows of the sliding window, from a batch padded (or cut)
\* to full_length when it is shorter.
Window(x, ad) ==
    IF Len(x) >= ad.full_length
    THEN Seq1([i \in 1..Len(ad.sub_idxs) |-> x[ad.sub_idxs[i] + 1]])
    ELSE With(Fit(x, ad.full_length),
              LAMBDA full : Seq1([i \in 1..Len(ad.sub_idxs) |-> full[ad.sub_idxs[i] + 1]]))

\* Lines 319-347: the rows of cond (or uncond) when unfold_batch and more than one row.
Unfold(x, ad, batch_prompt) ==
    Fit(IF ad # NoAd THEN Window(x, ad) ELSE x, batch_prompt)

\* tensor.repeat(times, 1, 1): the whole batch, times over.
Repeat(x, times) ==
    With(x, LAMBDA rows : Seq1([i \in 1..(Len(rows) * times) |-> rows[((i - 1) % Len(rows)) + 1]]))

\* torch.cat([(a, b)[i] for i in cond_or_uncond], dim=0)
RECURSIVE Cat(_, _, _)
Cat(a, b, cond_or_uncond) ==
    IF cond_or_uncond = <<>> THEN <<>>
    ELSE (IF Head(cond_or_uncond) = 0 THEN a ELSE b) \o Cat(a, b, Tail(cond_or_uncond))

\* The attention primitive views k and v with q's batch size: when they have
\* r times q's rows, each of its rows gets the tokens of r rows in a row.
RECURSIVE Concat(_)
Concat(rows) == IF rows = <<>> THEN <<>> ELSE Head(rows) \o Concat(Tail(rows))

View(x, b) ==
    LET r == Len(x) \div b
    IN Seq1([j \in 1..b |-> Concat(SubSeq(x, (j - 1) * r + 1, j * r))])

\* A bug the schedule gate could have: the bounds of the window are excluded.
Gate_Exclusive(sigma, sigma_start, sigma_end) == ~(sigma >= sigma_start \/ sigma <= sigma_end)

\* if sigma > sigma_start or sigma < sigma_end: continue
Gate_Either(sigma, sigma_start, sigma_end) == ~(sigma > sigma_start /\ sigma < sigma_end)

Gate(sigma, sigma_start, sigma_end) == ~(sigma > sigma_start \/ sigma < sigma_end)

RECURSIVE GCD(_, _)
GCD(a, b) == IF b = 0 THEN a ELSE GCD(b, a % b)

\* channel_penalty = float(C) / 1280.0; W = weight * channel_penalty
ChannelW(weight, C) ==
    LET g == GCD(C, 1280) IN <<weight[1] * (C \div g), weight[2] * (1280 \div g)>>

\* to_kvs of the layer's key: out_features of the linear map (C of ip_k.shape).
Channels(ip_layers, key) == ip_layers_to_kvs[FileIndex(ip_layers.state_dict)][key][1]

\* Lines 383-385: the grid of the mask for qs query positions and the original
\* shape (lh, lw). int(lh / math.sqrt(lh * lw / qs)) is the largest h with
\* h * h * lw <= lh * qs (the floats give just that for the shapes of the
\* model); qs % 0 raises ZeroDivisionError.
mask_grid(qs, lh, lw) ==
    LET h0 == CHOOSE h \in 0..(lh * qs) :
                  h * h * lw <= lh * qs /\ (h + 1) * (h + 1) * lw > lh * qs
        mask_h == h0 + (IF qs % h0 # 0 THEN 1 ELSE 0)
    IN IF h0 = 0 THEN [ok |-> FALSE, mask_h |-> 0, mask_w |-> 0]
       ELSE [ok |-> TRUE, mask_h |-> mask_h, mask_w |-> qs \div mask_h]

\* F.interpolate(mask, size=(mask_h, mask_w), mode="bicubic"), the cells of a
\* row flattened: a row that has the size of the grid stays as it is, and a
\* uniform row stays uniform (the masks of the model are one or the other).
Interpolate(mask, mask_h, mask_w) ==
    Seq1([b \in 1..Len(mask) |->
             IF Len(mask[b]) = mask_h * mask_w THEN mask[b]
             ELSE Seq1([c \in 1..(mask_h * mask_w) |-> mask[b][1]])])

\* Lines 387-417: the rows of the resized mask for the call.
AlignMask(mask, ad, batch_prompt, groups) ==
    Repeat(Fit(IF Len(mask) > 1 /\ ad # NoAd THEN Window(mask, ad) ELSE mask, batch_prompt),
           groups)

\* Lines 381-418: mask_downsample of a slot with a mask.
MaskDownsample(mask, in) ==
    With(mask_grid(Len(in.q[1]), in.original_shape[1], in.original_shape[2]),
    LAMBDA grid :
        AlignMask(Interpolate(mask, grid.mask_h, grid.mask_w), in.ad_params,
                  in.batch_prompt, Len(in.cond_or_uncond)))

\* What a slot with a mask raises in lines 383-420, "" when nothing: the
\* remainder by zero, the resize to an empty grid, or out_ip * mask_downsample
\* with a mask of another number of cells than out_ip has positions.
MaskError(in) ==
    LET qs == Len(in.q[1])
        grid == mask_grid(qs, in.original_shape[1], in.original_shape[2])
    IN IF ~grid.ok THEN "ZeroDivisionError"
       ELSE IF grid.mask_w = 0 THEN "RuntimeError: output size"
       ELSE IF grid.mask_h * grid.mask_w # qs THEN "RuntimeError: size mismatch"
       ELSE ""

\* Lines 319-357: the key and value projections of the aligned cond and uncond.
Projections(p, i, in) ==
    LET unfold == p.unfold_batch[i] /\ Len(p.conds[i].data) > 1
        times == IF unfold THEN 1 ELSE in.batch_prompt
    IN With(IF unfold THEN Unfold(p.conds[i].data, in.ad_params, in.batch_prompt)
            ELSE p.conds[i].data,
       LAMBDA cond :
       With(IF unfold THEN Unfold(p.unconds[i].data, in.ad_params, in.batch_prompt)
            ELSE p.unconds[i].data,
       LAMBDA uncond :
            [k_cond |-> Repeat(Project(p.k_key, cond), times),
             k_uncond |-> Repeat(Project(p.k_key, uncond), times),
             v_cond |-> Repeat(Project(p.v_key, cond), times),
             v_uncond |-> Repeat(Project(p.v_key, uncond), times)]))

\* Lines 359-375: ip_k and ip_v of the weighting mode, from the assembled k and v.
ChannelPenalty(k, v, W) ==
    With(Seq1([b \in 1..Len(v) |-> Mean(v[b])]),
    LAMBDA ip_v_mean :
        [ip_k |-> MapRows(k, LAMBDA x : Mul(x, W)),
         ip_v |-> Seq1([b \in 1..Len(v) |-> Seq1([t \in 1..Len(v[b]) |->
                     Plus(Plus(v[b][t], 0 - ip_v_mean[b]), Mul(ip_v_mean[b], W))])])])

Weighting(weight_type, weight, C, k, v) ==
    IF weight_type = "linear"
    THEN [ip_k |-> MapRows(k, LAMBDA x : Mul(x, weight)),
          ip_v |-> MapRows(v, LAMBDA x : Mul(x, weight))]
    ELSE IF weight_type = "channel penalty" THEN ChannelPenalty(k, v, ChannelW(weight, C))
    ELSE [ip_k |-> k, ip_v |-> v]

\* Lines 377-420: out_ip from ip_k and ip_v, weighted in the original mode
\* and multiplied by the aligned mask.
Masked(x, mask) ==
    Seq1([b \in 1..Len(x) |-> Seq1([pos \in 1..Len(x[b]) |-> Times(x[b][pos], mask[b][pos])])])

OutIp(p, i, in, ip, mask) ==
    With(optimized_attention(in.q, View(ip.ip_k, Len(in.q)), View(ip.ip_v, Len(in.q))),
    LAMBDA attn :
    With(IF p.weight_type[i] = "original" THEN MapRows(attn, LAMBDA x : Mul(x, p.weights[i]))
         ELSE attn,
    LAMBDA weighted :
        IF p.masks[i] # None THEN Masked(weighted, mask) ELSE weighted))

\* One round of the loop for a slot the gate lets through (lines 319-420):
\* the aligned projections, ip_k and ip_v, mask_downsample (none without a
\* mask) and out_ip. in: q, cond_or_uncond, batch_prompt, original_shape,
\* ad_params.
SlotOut(p, i, in) ==
    With(Projections(p, i, in),
    LAMBDA pr :
    With(Cat(pr.k_cond, pr.k_uncond, in.cond_or_uncond),
    LAMBDA k :
    With(Cat(pr.v_cond, pr.v_uncond, in.cond_or_uncond),
    LAMBDA v :
    With(Weighting(p.weight_type[i], p.weights[i], Channels(p.ip_layers[i], p.k_key), k, v),
    LAMBDA ip :
    With(IF p.masks[i] # None THEN MaskDownsample(p.masks[i].data, in) ELSE <<>>,
    LAMBDA mask :
        [k_cond |-> pr.k_cond, k_uncond |-> pr.k_uncond,
         v_cond |-> pr.v_cond, v_uncond |-> pr.v_uncond,
         ip_k |-> ip.ip_k, ip_v |-> ip.ip_v, mask |-> mask,
         out_ip |-> OutIp(p, i, in, ip, mask)])))))

\* A bug the accumulation could have: the slot's output replaces out.
Accumulate_Overwrite(out_, out_ip) == out_ip

\* out = out + out_ip
Accumulate(out_, out_ip) ==
    With(out_ip, LAMBDA o :
        Seq1([b \in 1..Len(out_) |-> Seq1([pos \in 1..Len(out_[b]) |-> Plus(out_[b][pos], o[b][pos])])]))

\* The loop over the slots from slot i on, out_ being out so far.
RECURSIVE Slots(_, _, _, _)
Slots(p, i, in, out_) ==
    IF i > Len(p.weights) THEN out_
    ELSE IF ~Gate(in.sigma, p.sigma_start[i], p.sigma_end[i]) THEN Slots(p, i + 1, in, out_)
    ELSE CHOOSE r \in {Slots(p, i + 1, in, o) :
                          o \in {Accumulate(out_, SlotOut(p, i, in).out_ip)}} : TRUE

\* __call__(n, context_attn2, value_attn2, extra_options): out of the text
\* context, then every slot's out_ip added to it.
CrossAttentionPatch_call(p, in) ==
    Slots(p, 1, in, optimized_attention(in.q, in.context_attn2, in.value_attn2))

\* What the call raises, "" when it returns: a slot the gate lets through
\* that has a mask and cannot fit it to the queries.
Raised(p, in) ==
    IF \E i \in 1..Len(p.weights) :
           /\ Gate(in.sigma, p.sigma_start[i], p.sigma_end[i])
           /\ p.masks[i] # None
           /\ MaskError(in) # ""
    THEN MaskError(in) ELSE ""

\* A bug the alignment could have: the rows aligned for the call are kept in
\* the slot (self.conds[i] = cond in place of the local name).
SelfAfterCall_Store(p, in) ==
    [p EXCEPT !.conds = [i \in 1..Len(p.conds) |->
        IF Gate(in.sigma, p.sigma_start[i], p.sigma_end[i])
           /\ p.unfold_batch[i] /\ Len(p.conds[i].data) > 1
        THEN [p.conds[i] EXCEPT !.data = Unfold(@, in.ad_params, in.batch_prompt)]
        ELSE p.conds[i]]]

\* The patch after the call: lines 300-424 assign local names only (cond,
\* uncond, mask_downsample, out), never an attribute of self, and index and
\* cat return new tensors.
SelfAfterCall(p, in) == p

\* ------------------------------------------------------------------ the patch's state machine
\* One layer of model 1, the first of the input blocks (number 0), patched from
\* the SD1.5 checkpoint and called by the sampler.
PatchKey == <<"input", 1>>
OtherKey == <<"middle", 0>>

PatchCkpt == [name |-> "sd15.safetensors", model |-> Loaded[FileIndex("sd15.safetensors")].model]

\* Conditioning of n rows of two tokens: the tokens of row i, conditioned and not.
CondRow(i) == <<<<One, One + i * 16384>>, <<0, One>>>>
UncondRow(i) == <<<<One, i * 8192>>, <<0, 0>>>>
MaskRow(i) == IF i % 2 = 1 THEN <<One, 0>> ELSE <<One, One \div 2>>

Cond(n) == Tensor(<<n, 2, 2>>, [i \in 1..n |-> CondRow(i)], OffloadDevice)
Uncond(n) == Tensor(<<n, 2, 2>>, [i \in 1..n |-> UncondRow(i)], OffloadDevice)
Mask(n) == Tensor(<<n, 1, 2>>, [i \in 1..n |-> MaskRow(i)], OffloadDevice)

Weights == {<<0, 1>>, <<1, 1>>}
WeightTypes == {"original", "linear", "channel penalty"}
Arrangements == {<<1, FALSE>>, <<2, TRUE>>}
Schedules == {<<SigmaInf, 0>>, <<2, 1>>}

\* The patch_kwargs apply_ipadapter passes for the layer.
SlotKw ==
    {[number |-> 0, weight |-> w, ip_layers |-> To_KV(PatchCkpt),
      cond |-> Cond(a[1]), uncond |-> Uncond(a[1]), weight_type |-> wt,
      mask |-> IF masked THEN Mask(a[1]) ELSE None,
      sigma_start |-> s[1], sigma_end |-> s[2], unfold_batch |-> a[2]] :
        w \in Weights, wt \in WeightTypes, masked \in BOOLEAN,
        a \in Arrangements, s \in Schedules}

\* What the sampler passes: the queries of every row (two positions, an
\* original shape of one row of two), the text context, the noise level
\* (SigmaInf when extra_options has no sigmas) and the sliding window.
CallIn(cond_or_uncond, batch_prompt, sigma, ad_params, text) ==
    LET b == Len(cond_or_uncond) * batch_prompt
    IN [q |-> [r \in 1..b |-> <<0, 4>>],
        context_attn2 |-> [r \in 1..b |-> <<One, 0>>],
        value_attn2 |-> [r \in 1..b |-> <<text, 0>>],
        cond_or_uncond |-> cond_or_uncond, batch_prompt |-> batch_prompt,
        original_shape |-> <<1, 2>>, sigma |-> sigma, ad_params |-> ad_params]

\* The calls of the run: every batch at one noise level, every noise level
\* (and none given) for one batch.
CallIns ==
    {CallIn(c, m, 2, NoAd, One) : c \in {<<0>>, <<1, 0>>}, m \in 1..MaxBatch}
    \cup {CallIn(<<1, 0>>, 1, sigma, NoAd, One) : sigma \in (0..MaxSigma) \cup {SigmaInf}}

NoCall == <<>>

InitPatch ==
    /\ heap = <<>>
    /\ attn2 = <<<<>>>>
    /\ calls = <<>>
    /\ ipadapter = PatchCkpt
    /\ adapter = NoInst
    /\ last = Idle
    /\ out = NoCall

\* set_model_patch_replace(model 1, patch_kwargs, key); calls remembers it.
Install(key, kw) ==
    /\ key \in DOMAIN calls => Len(calls[key]) < MaxSlots
    /\ \E w \in {set_model_patch_replace([heap |-> heap, attn2 |-> attn2], 1, kw, key)} :
          /\ heap' = w.heap
          /\ attn2' = w.attn2
    /\ calls' = IF key \in DOMAIN calls THEN [calls EXCEPT ![key] = Append(@, kw)]
                ELSE calls @@ (key :> <<kw>>)
    /\ last' = [Idle EXCEPT !.op = "install"]
    /\ out' = NoCall
    /\ UNCHANGED <<ipadapter, adapter>>

\* The host moves the patches: patch.to(device) before and after sampling,
\* patch.to(dtype) with the model's dtype.
MoveTo(key, d) ==
    /\ key \in DOMAIN attn2[1]
    /\ heap' = [heap EXCEPT ![attn2[1][key]] = PatchTo(@, d)]
    /\ last' = [Idle EXCEPT !.op = "to"]
    /\ out' = NoCall
    /\ UNCHANGED <<attn2, calls, ipadapter, adapter>>

OnDevice(p, d) ==
    \A i \in 1..Len(p.conds) :
        /\ p.conds[i].dev = d /\ p.unconds[i].dev = d /\ p.ip_layers[i].dev = d
        /\ p.masks[i] # None => p.masks[i].dev = d

\* The call of the patch of a layer: its inputs, what it raised, the slots
\* the gate let through and what it returned (nothing when it raised).
Returned(key, in) ==
    With(Raised(heap[attn2[1][key]], in), LAMBDA error :
        [key |-> key, in |-> in, error |-> error,
         active |-> [i \in 1..Len(heap[attn2[1][key]].weights) |->
                        Gate(in.sigma, heap[attn2[1][key]].sigma_start[i],
                             heap[attn2[1][key]].sigma_end[i])],
         result |-> IF error = "" THEN CrossAttentionPatch_call(heap[attn2[1][key]], in)
                    ELSE <<>>])

\* The sampler calls the patch of the layer, on the load device. out keeps the
\* call of the step.
Call(key, in) ==
    /\ key \in DOMAIN attn2[1]
    /\ out = NoCall
    /\ OnDevice(heap[attn2[1][key]], LoadDevice)
    /\ out' = <<Returned(key, in)>>
    /\ heap' = [heap EXCEPT ![attn2[1][key]] = SelfAfterCall(@, in)]
    /\ last' = [Idle EXCEPT !.op = "call"]
    /\ UNCHANGED <<attn2, calls, ipadapter, adapter>>

NextPatch ==
    \/ \E kw \in SlotKw : Install(PatchKey, kw)
    \/ \E d \in {OffloadDevice, LoadDevice, "float16"} : MoveTo(PatchKey, d)
    \/ \E in \in CallIns : Call(PatchKey, in)

SpecPatch == InitPatch /\ [][NextPatch]_vars

\* ------------------------------------------------------------------ the table's state machine
\* Two layers of model 1 and the installations made on them, in any order.
Number(key) == IF key = PatchKey THEN 0 ELSE 15

InstallKw ==
    {kw \in SlotKw : kw.weight_type = "original" /\ kw.mask = None /\ kw.sigma_end = 0}

NextInstall ==
    \/ \E key \in {PatchKey, OtherKey}, kw \in InstallKw :
          Install(key, [kw EXCEPT !.number = Number(key)])
    \/ \E key \in {PatchKey, OtherKey}, d \in {OffloadDevice, LoadDevice, "float16"} :
          MoveTo(key, d)

SpecInstall == InitPatch /\ [][NextInstall]_vars

\* ------------------------------------------------------------------ the sliding window's state machine
\* A video: a slot has a frame's conditioning and a frame's mask per row (the
\* mask of frame i is not the mask of another frame), unfold on or off, and the
\* sampler calls the layer window by window.
FrameMaskRow(i) == <<One, One \div Pow2(i)>>

FrameMask(n) == Tensor(<<n, 1, 2>>, [i \in 1..n |-> FrameMaskRow(i)], OffloadDevice)

WindowKw ==
    {[number |-> 0, weight |-> <<1, 1>>, ip_layers |-> To_KV(PatchCkpt),
      cond |-> Cond(n), uncond |-> Uncond(n), weight_type |-> "original",
      mask |-> FrameMask(n), sigma_start |-> SigmaInf, sigma_end |-> 0,
      unfold_batch |-> u] : n \in 1..MaxBatch, u \in BOOLEAN}

\* The windows of two frames of a video of L frames: a frame and the next one
\* (the last with the first, as a looped context has it) and the two ends.
SubIdxs(L) == {<<i, (i + 1) % L>> : i \in 0..(L - 1)} \cup {<<0, L - 1>>}

Windows ==
    UNION {{[sub_idxs |-> S, full_length |-> L] : S \in SubIdxs(L)} : L \in 2..(MaxBatch + 1)}

\* The calls of a video: a window's frames per prompt, or a batch without a window.
WindowIns ==
    {CallIn(c, Len(ad.sub_idxs), SigmaInf, ad, One) : c \in {<<0>>, <<1, 0>>}, ad \in Windows}
    \cup {CallIn(c, m, SigmaInf, NoAd, One) : c \in {<<0>>, <<1, 0>>}, m \in 1..MaxBatch}

NextWindow ==
    \/ \E kw \in WindowKw : Install(PatchKey, kw)
    \/ \E d \in {OffloadDevice, LoadDevice} : MoveTo(PatchKey, d)
    \/ \E in \in WindowIns : Call(PatchKey, in)

SpecWindow == InitPatch /\ [][NextWindow]_vars

\* ------------------------------------------------------------------ the sampling run's state machine
\* A run of the sampler: the layer is called step after step, at a noise level
\* that does not rise. The slots have the windows apply_ipadapter makes from
\* start_at and end_at, whichever of the two is the larger.
RunPercents == {0, 25, 50, 100}

RunKw ==
    {[number |-> 0, weight |-> <<1, 1>>, ip_layers |-> To_KV(PatchCkpt),
      cond |-> Cond(1), uncond |-> Uncond(1), weight_type |-> "original",
      mask |-> None, sigma_start |-> percent_to_sigma(start_at),
      sigma_end |-> percent_to_sigma(end_at), unfold_batch |-> FALSE] :
        start_at \in RunPercents, end_at \in RunPercents}

\* The noise levels of the steps (SigmaInf when no sigmas are passed).
Sigmas == (0..MaxSigma) \cup {SigmaInf}

\* The next step of the run calls the patch; out keeps the calls of the run.
Step(key, sigma) ==
    /\ key \in DOMAIN attn2[1]
    /\ Len(out) < MaxSteps
    /\ out # NoCall => sigma <= out[Len(out)].in.sigma
    /\ OnDevice(heap[attn2[1][key]], LoadDevice)
    /\ out' = Append(out, Returned(key, CallIn(<<1, 0>>, 1, sigma, NoAd, One)))
    /\ heap' = [heap EXCEPT ![attn2[1][key]] =
                    SelfAfterCall(@, CallIn(<<1, 0>>, 1, sigma, NoAd, One))]
    /\ last' = [Idle EXCEPT !.op = "call"]
    /\ UNCHANGED <<attn2, calls, ipadapter, adapter>>

NextRun ==
    \/ \E kw \in RunKw : Install(PatchKey, kw)
    \/ \E d \in {OffloadDevice, LoadDevice} : MoveTo(PatchKey, d)
    \/ \E sigma \in Sigmas : Step(PatchKey, sigma)

SpecRun == InitPatch /\ [][NextRun]_vars

\* ------------------------------------------------------------------ the mask grid's state machine
\* A slot with a mask, or without one, called at the levels of the UNet: a
\* latent of lh x lw is halved level by level (a strided 3 x 3 convolution
\* with padding 1 gives the half rounded up), and the queries of a level are
\* its positions. The mask is one value all over, so a resize keeps it.
UniformMask == Tensor(<<1, 1, 1>>, <<<<One>>>>, OffloadDevice)

GridKw ==
    {[number |-> 0, weight |-> <<1, 1>>, ip_layers |-> To_KV(PatchCkpt),
      cond |-> Cond(1), uncond |-> Uncond(1), weight_type |-> "original",
      mask |-> mask, sigma_start |-> SigmaInf, sigma_end |-> 0,
      unfold_batch |-> FALSE] : mask \in {None, UniformMask}}

\* The latents: the small ones, and the one of an image of 256 x 80 pixels.
Shapes == ((1..MaxSide) \X (1..MaxSide)) \cup {<<32, 10>>}

Downsamples == {1, 2, 4, 8}

Halved(side, d) == (side + d - 1) \div d

Positions(shape, d) == Halved(shape[1], d) * Halved(shape[2], d)

GridIn(qs, shape) ==
    [CallIn(<<1, 0>>, 1, SigmaInf, NoAd, One) EXCEPT
        !.q = [r \in 1..2 |-> [pos \in 1..qs |-> 4 * (pos % 2)]],
        !.original_shape = shape]

GridIns ==
    {GridIn(Positions(x[1], x[2]), x[1]) :
        x \in {y \in Shapes \X Downsamples : Positions(y[1], y[2]) <= MaxQs}}

NextGrid ==
    \/ \E kw \in GridKw : Install(PatchKey, kw)
    \/ \E d \in {OffloadDevice, LoadDevice} : MoveTo(PatchKey, d)
    \/ \E in \in GridIns : Call(PatchKey, in)

SpecGrid == InitPatch /\ [][NextGrid]_vars

\* ------------------------------------------------------------------ IPAdapterEncoder
\* The weights of the encoder node are hundredths (the node's step is 0.01);
\* the weights it computes are in units of 1e-7, which is exact for the
\* products of two hundredths and for the epsilon (the doubles of the code and
\* the float32 of the weight tensor are off by less than 1e-12).
WeightOne == 10000000

Epsilon == 119

\* weight *= (0.1 + (weight - 0.1)): the weight times itself.
Scaled(w) == w * w * (WeightOne \div 10000)

\* 1.19e-05 if weight <= 1.19e-05 else weight
Floored(x) == IF x <= Epsilon THEN Epsilon ELSE x

\* [weight_k] * image_k.shape[0], image by image, from image k on; an image
\* that is None has no rows.
RECURSIVE WeightList(_, _, _)
WeightList(rows, weight_, k) ==
    IF k > Len(rows) THEN <<>>
    ELSE [r \in 1..rows[k] |-> weight_[k]] \o WeightList(rows, weight_, k + 1)

RECURSIVE ImageList(_, _)
ImageList(rows, k) ==
    IF k > Len(rows) THEN <<>>
    ELSE [r \in 1..rows[k] |-> k] \o ImageList(rows, k + 1)

\* preprocess(clip_vision, image_1, ipadapter_plus, noise, weight_1, image_2,
\* image_3, image_4, weight_2, weight_3, weight_4): rows[k] is the batch of
\* image k (0 for None), w[k] its weight. Line 750 assigns the floored
\* weight_4 to weight_5, which nothing reads. clip_embed is, row by row, the
\* embedding of an image and the weight it is multiplied by (1.0 when lines
\* 787-789 are skipped).
preprocess(rows, w) ==
    LET weight_1 == Floored(Scaled(w[1]))
        weight_2 == Floored(Scaled(w[2]))
        weight_3 == Floored(Scaled(w[3]))
        weight_4 == Scaled(w[4])
        weight == WeightList(rows, <<weight_1, weight_2, weight_3, weight_4>>, 1)
        image == ImageList(rows, 1)
        weighted == \E r \in 1..Len(weight) : weight[r] # WeightOne
    IN [image |-> image, weight |-> weight,
        clip_embed |-> [r \in 1..Len(image) |->
                           [image |-> image[r],
                            times |-> IF weighted THEN weight[r] ELSE WeightOne]]]

\* ------------------------------------------------------------------ the encoder's state machine
Hundredths == {0, 50, 100}

\* image_1 is required, the others are optional.
ImageRows == {<<1, a, b, c>> : a \in 0..1, b \in 0..1, c \in 0..1}

\* The encoder node runs; out keeps its inputs and what it returned.
Encode(rows, w) ==
    /\ \E r \in {preprocess(rows, w)} :
          out' = <<[rows |-> rows, weights |-> w, image |-> r.image,
                    weight |-> r.weight, clip_embed |-> r.clip_embed]>>
    /\ last' = [Idle EXCEPT !.op = "preprocess"]
    /\ UNCHANGED <<heap, attn2, calls, ipadapter, adapter>>

NextEncode ==
    \E rows \in ImageRows, w \in Hundredths \X Hundredths \X Hundredths \X Hundredths :
        Encode(rows, w)

SpecEncode == Init /\ [][NextEncode]_vars

\* ------------------------------------------------------------------ claims on the table and the patch
\* Slot j of patch p is what a call with patch_kwargs kw put there (the device
\* of its tensors aside, which to() changes).
SlotIs(p, j, kw) ==
    /\ p.weights[j] = kw.weight
    /\ p.ip_layers[j].state_dict = kw.ip_layers.state_dict
    /\ p.conds[j].data = kw.cond.data
    /\ p.unconds[j].data = kw.uncond.data
    /\ p.masks[j].data = kw.mask.data
    /\ p.weight_type[j] = kw.weight_type
    /\ p.sigma_start[j] = kw.sigma_start
    /\ p.sigma_end[j] = kw.sigma_end
    /\ p.unfold_batch[j] = kw.unfold_batch

\* C1: the table of a model holds one patch per key that was passed to
\* set_model_patch_replace and no other patch; the slots of the patch under a
\* key are the patch_kwargs of the calls made with that key, one slot per
\* call, in the order of the calls.
C1_OneSlotPerCall ==
    /\ DOMAIN attn2[1] = DOMAIN calls
    /\ Len(heap) = Cardinality(DOMAIN calls)
    /\ \A k1, k2 \in DOMAIN attn2[1] : k1 # k2 => attn2[1][k1] # attn2[1][k2]
    /\ \A key \in DOMAIN calls :
          LET p == heap[attn2[1][key]]
          IN /\ Len(p.weights) = Len(calls[key])
             /\ \A j \in 1..Len(calls[key]) : SlotIs(p, j, calls[key][j])

\* Both keys were used, one of them twice with different patch_kwargs.
C1_Witness ==
    /\ DOMAIN calls = {PatchKey, OtherKey}
    /\ Len(calls[PatchKey]) = 2 /\ calls[PatchKey][1] # calls[PatchKey][2]
    /\ Len(calls[OtherKey]) = 1

\* C3: the nine per-slot lists of every patch have one length, at least 1.
SlotLists(p) ==
    {Len(p.weights), Len(p.ip_layers), Len(p.conds), Len(p.unconds), Len(p.masks),
     Len(p.weight_type), Len(p.sigma_start), Len(p.sigma_end), Len(p.unfold_batch)}

C3_ParallelLists ==
    \A i \in 1..Len(heap) : Cardinality(SlotLists(heap[i])) = 1 /\ Len(heap[i].weights) >= 1

\* A patch of two slots, one masked and one not, was moved and called.
C3_Witness ==
    /\ out # NoCall
    /\ \E i \in 1..Len(heap) :
          /\ Len(heap[i].weights) = 2
          /\ heap[i].masks[1] = None /\ heap[i].masks[2] # None
          /\ heap[i].conds[1].dev = LoadDevice

\* The patch that was called and the inputs of the call.
Called == heap[attn2[1][out[1].key]]
Base(in) == optimized_attention(in.q, in.context_attn2, in.value_attn2)

\* The sum of two batches, value by value.
Add(x, y) ==
    Seq1([b \in 1..Len(x) |-> Seq1([pos \in 1..Len(x[b]) |-> Plus(x[b][pos], y[b][pos])])])

\* acc plus, in the order of the slots, out_ip of every slot i with keep[i].
RECURSIVE AddUp(_, _, _, _, _)
AddUp(p, in, keep, i, acc) ==
    IF i > Len(p.weights) THEN acc
    ELSE IF ~keep[i] THEN AddUp(p, in, keep, i + 1, acc)
    ELSE With(SlotOut(p, i, in).out_ip,
              LAMBDA c : With(Add(acc, c), LAMBDA sum : AddUp(p, in, keep, i + 1, sum)))

InWindow(p, i, sigma) == p.sigma_end[i] <= sigma /\ sigma <= p.sigma_start[i]

\* C4: what a call returns is out of the text context plus out_ip of exactly
\* the slots with sigma_end <= sigma <= sigma_start: a slot outside its window
\* adds nothing, whatever its weight, mode, mask and unfold flag, and the
\* slots after it are still added.
C4_ScheduleGate ==
    out # NoCall =>
        out[1].result =
            AddUp(Called, out[1].in,
                  [i \in 1..Len(Called.weights) |-> InWindow(Called, i, out[1].in.sigma)],
                  1, Base(out[1].in))

\* A call at a sigma above the window of the first slot and equal to
\* sigma_start of the second, which changed the result.
C4_Witness ==
    /\ out # NoCall
    /\ Len(Called.weights) = 2
    /\ Called.sigma_start[1] = 2 /\ Called.weights[1] = <<1, 1>>
    /\ Called.sigma_start[2] = SigmaInf /\ Called.weights[2] = <<1, 1>>
    /\ out[1].in.sigma = SigmaInf
    /\ out[1].result # Base(out[1].in)

\* The patch with slot i of p alone.
Solo(p, i) ==
    [p EXCEPT !.weights = <<p.weights[i]>>, !.ip_layers = <<p.ip_layers[i]>>,
              !.conds = <<p.conds[i]>>, !.unconds = <<p.unconds[i]>>,
              !.masks = <<p.masks[i]>>, !.weight_type = <<p.weight_type[i]>>,
              !.sigma_start = <<p.sigma_start[i]>>, !.sigma_end = <<p.sigma_end[i]>>,
              !.unfold_batch = <<p.unfold_batch[i]>>]

\* What slot i adds when it is the only slot: the result of the call on the
\* patch of that slot alone, with a text context whose attention is zero.
ZeroText(in) == [in EXCEPT !.value_attn2 = [r \in 1..Len(in.q) |-> <<0, 0>>]]

Contribution(p, i, in) == CrossAttentionPatch_call(Solo(p, i), ZeroText(in))

RECURSIVE SumOf(_, _, _, _)
SumOf(p, in, i, acc) ==
    IF i > Len(p.weights) THEN acc
    ELSE With(Contribution(p, i, in),
              LAMBDA c : With(Add(acc, c), LAMBDA sum : SumOf(p, in, i + 1, sum)))

\* C5: what a call on a patch of several slots returns is out of the text
\* context plus, slot after slot, what each slot adds when it is the patch's
\* only slot.
C5_Composable ==
    out # NoCall => out[1].result = SumOf(Called, out[1].in, 1, Base(out[1].in))

\* Two different slots were both active and each adds something.
C5_Witness ==
    /\ out # NoCall
    /\ Len(Called.weights) = 2
    /\ Contribution(Called, 1, out[1].in) # Contribution(Called, 2, out[1].in)
    /\ \A i \in 1..2 :
          /\ InWindow(Called, i, out[1].in.sigma)
          /\ \E b \in 1..Len(out[1].in.q) : Contribution(Called, i, out[1].in)[b] # <<0, 0>>

\* C6: when every slot has weight 0.0 the call returns out of the text context.
C6_ZeroWeightIsBase ==
    (out # NoCall /\ \A i \in 1..Len(Called.weights) : Called.weights[i][1] = 0)
        => out[1].result = Base(out[1].in)

\* C7: without a sliding window, a slot with unfold off and one conditioning
\* row uses that row for every row of the batch; a slot with unfold on and
\* n > 1 rows uses for row j (from 0) conditioning row min(j, n - 1); for the
\* key and the value projections, of cond and of uncond alike.
Aligned(rows, source, index(_)) ==
    /\ Len(rows) = out[1].in.batch_prompt
    /\ \A j \in 1..Len(rows) : rows[j] = source[index(j - 1) + 1]

AlignedSlot(p, i, in, index(_)) ==
    LET s == SlotOut(p, i, in)
    IN /\ Aligned(s.k_cond, Project(p.k_key, p.conds[i].data), index)
       /\ Aligned(s.k_uncond, Project(p.k_key, p.unconds[i].data), index)
       /\ Aligned(s.v_cond, Project(p.v_key, p.conds[i].data), index)
       /\ Aligned(s.v_uncond, Project(p.v_key, p.unconds[i].data), index)

C7_Realign ==
    (out # NoCall /\ out[1].in.ad_params = NoAd) =>
        \A i \in 1..Len(Called.weights) :
            LET n == Len(Called.conds[i].data)
            IN /\ (~Called.unfold_batch[i] /\ n = 1) =>
                      AlignedSlot(Called, i, out[1].in, LAMBDA j : 0)
               /\ (Called.unfold_batch[i] /\ n > 1) =>
                      AlignedSlot(Called, i, out[1].in,
                                  LAMBDA j : IF j < n - 1 THEN j ELSE n - 1)

\* A call for three rows per prompt on a slot of two rows with unfold on (the
\* last row is repeated) and a slot of one row (broadcast).
C7_Witness ==
    /\ out # NoCall
    /\ out[1].in.batch_prompt = 3 /\ out[1].in.cond_or_uncond = <<1, 0>>
    /\ Len(Called.weights) = 2
    /\ Called.unfold_batch[1] /\ Len(Called.conds[1].data) = 2
    /\ ~Called.unfold_batch[2] /\ Len(Called.conds[2].data) = 1

\* ------------------------------------------------------------------ claims on the sliding window
\* C13: for a slot with unfold on and n > 1 conditioning rows, called with a
\* sliding window of full length L and sub-indices S: row k of the window's
\* conditioning is conditioning row S[k] when n >= L, and row min(S[k], n - 1)
\* (the last row repeated up to length L) when n < L; there are len(S) rows,
\* and cond and uncond, key and value projections use the same indices.
WindowIndex(n, ad, k) ==
    IF n >= ad.full_length \/ ad.sub_idxs[k + 1] < n - 1 THEN ad.sub_idxs[k + 1] ELSE n - 1

C13_WindowRows ==
    (out # NoCall /\ out[1].in.ad_params # NoAd) =>
        \A i \in 1..Len(Called.weights) :
            LET n == Len(Called.conds[i].data)
            IN (Called.unfold_batch[i] /\ n > 1) =>
                   /\ out[1].in.batch_prompt = Len(out[1].in.ad_params.sub_idxs)
                   /\ AlignedSlot(Called, i, out[1].in,
                                  LAMBDA k : WindowIndex(n, out[1].in.ad_params, k))

\* A window that ends past the slot's rows (the last row stands for the frames
\* that have none) on a slot of two rows, and one within a slot of three.
C13_Witness ==
    /\ out # NoCall
    /\ out[1].in.ad_params = [sub_idxs |-> <<1, 2>>, full_length |-> 3]
    /\ Len(Called.weights) = 2
    /\ Called.unfold_batch[1] /\ Len(Called.conds[1].data) = 2
    /\ Called.unfold_batch[2] /\ Len(Called.conds[2].data) = 3

\* C14: the mask is aligned as the conditioning is: for every slot whose mask
\* has as many rows as its conditioning, whatever unfold, the window and the
\* batch per prompt are, the mask row multiplied into row j of the batch comes
\* from the index the conditioning used for row j comes from, and the aligned
\* mask is repeated once per cond/uncond group.
MaskSource(p, i, s, j) == {r \in 1..Len(p.masks[i].data) : p.masks[i].data[r] = s.mask[j]}

\* The conditioning rows the attention reads for row j of b: the rows of ip_v
\* that fall to it, as projections of rows of cond or of uncond.
CondSource(p, i, s, j, b) ==
    LET per == Len(s.ip_v) \div b
        used == {s.ip_v[r] : r \in ((j - 1) * per + 1)..(j * per)}
    IN {r \in 1..Len(p.conds[i].data) :
            \/ Project(p.v_key, p.conds[i].data)[r] \in used
            \/ Project(p.v_key, p.unconds[i].data)[r] \in used}

MaskFollowsCond(p, i, in) ==
    LET s == SlotOut(p, i, in)
    IN /\ Len(s.mask) = Len(in.q)
       /\ \A j \in 1..Len(s.mask) :
              /\ MaskSource(p, i, s, j) = CondSource(p, i, s, j, Len(in.q))
              /\ s.mask[j] = s.mask[((j - 1) % in.batch_prompt) + 1]

C14_MaskAlignedAsCond ==
    out # NoCall =>
        \A i \in 1..Len(Called.weights) :
            (Called.masks[i] # None
             /\ Len(Called.masks[i].data) = Len(Called.conds[i].data))
                => MaskFollowsCond(Called, i, out[1].in)

\* Two frames, each with its mask, on a slot with unfold off, called for a
\* batch of two: every row of the batch attends to both frames.
C14_Witness ==
    /\ out # NoCall
    /\ out[1].in.ad_params = NoAd /\ out[1].in.batch_prompt = 2
    /\ Len(Called.weights) = 1
    /\ ~Called.unfold_batch[1] /\ Len(Called.conds[1].data) = 2

\* C15: a call only reads the patch: whatever it selects by the window, pads
\* or cuts, it leaves the heap and the table as they were, and the patch it
\* called still has the slots that were installed, one per installation, each
\* with its weight, mode, projector, cond, uncond, mask, sigma window and
\* unfold flag, for the next call to start from.
C15_CallOnlyReads ==
    [][last'.op = "call" =>
          /\ heap' = heap /\ attn2' = attn2
          /\ LET p == heap'[attn2'[1][out'[1].key]]
                 kws == calls'[out'[1].key]
             IN /\ Len(p.weights) = Len(kws)
                /\ \A j \in 1..Len(kws) : SlotIs(p, j, kws[j])]_vars

\* A call with a window on a slot of two frames and a slot of three, both
\* padded to the four frames of the video before the window selects two.
C15_Witness ==
    /\ out # NoCall /\ last.op = "call"
    /\ out[1].in.ad_params = [sub_idxs |-> <<2, 3>>, full_length |-> 4]
    /\ Len(Called.weights) = 2
    /\ Called.unfold_batch[1] /\ Len(Called.conds[1].data) = 2
    /\ Called.unfold_batch[2] /\ Len(Called.conds[2].data) = 3

\* C18: for every slot the gate lets through, whatever its conditioning batch,
\* unfold and the window are, ip_k and ip_v have as many rows as the queries
\* (len(cond_or_uncond) times the batch per prompt).
C18_RowsAsQueries ==
    out # NoCall =>
        \A i \in 1..Len(Called.weights) :
            InWindow(Called, i, out[1].in.sigma) =>
                LET s == SlotOut(Called, i, out[1].in)
                IN Len(s.ip_k) = Len(out[1].in.q) /\ Len(s.ip_v) = Len(out[1].in.q)

\* Three rows of conditioning on a slot with unfold off, called for one row
\* per prompt, cond and uncond.
C18_Witness ==
    /\ out # NoCall
    /\ out[1].in.ad_params = NoAd /\ out[1].in.batch_prompt = 1
    /\ out[1].in.cond_or_uncond = <<1, 0>>
    /\ Len(Called.weights) = 1
    /\ ~Called.unfold_batch[1] /\ Len(Called.conds[1].data) = 3

\* ------------------------------------------------------------------ claims on the sampling run
\* C19: over a run whose noise level never rises from a step to the next, the
\* steps at which a slot is active are one interval: it is not active before
\* sigma is down to its sigma_start, it is never active again after a step
\* with sigma below its sigma_end, and a slot with sigma_start < sigma_end is
\* active at no step.
C19_OneInterval ==
    out # NoCall =>
        \A i \in 1..Len(Called.weights) :
            /\ \A j \in 1..Len(out) :
                   /\ out[j].active[i] => out[j].in.sigma <= Called.sigma_start[i]
                   /\ out[j].in.sigma < Called.sigma_end[i] =>
                          \A l \in j..Len(out) : ~out[l].active[i]
                   /\ Called.sigma_start[i] < Called.sigma_end[i] => ~out[j].active[i]
            /\ \A j1, j2, j3 \in 1..Len(out) :
                   (j1 < j2 /\ j2 < j3 /\ out[j1].active[i] /\ out[j3].active[i])
                       => out[j2].active[i]

\* Three steps on a slot with the window [1, 2]: above it, inside it, below
\* it; a second slot has its window the wrong way round.
C19_Witness ==
    /\ Len(out) = 3
    /\ Len(Called.weights) = 2
    /\ Called.sigma_start[1] = 2 /\ Called.sigma_end[1] = 1
    /\ Called.sigma_start[2] = 1 /\ Called.sigma_end[2] = 2
    /\ ~out[1].active[1] /\ out[2].active[1] /\ ~out[3].active[1]

\* ------------------------------------------------------------------ claims on the mask grid
\* C20: whatever the number of query positions qs >= 1 and the original shape
\* (lh, lw) are, a call that applies a mask computes a grid with mask_h >= 1
\* and mask_h * mask_w = qs, one cell per query position, takes no remainder
\* by zero and raises nothing when it multiplies out_ip by the mask.
C20_GridFits ==
    (out # NoCall /\ \E i \in 1..Len(Called.weights) :
                        out[1].active[i] /\ Called.masks[i] # None) =>
        LET qs == Len(out[1].in.q[1])
            grid == mask_grid(qs, out[1].in.original_shape[1], out[1].in.original_shape[2])
        IN /\ out[1].error = ""
           /\ grid.ok /\ grid.mask_h >= 1 /\ grid.mask_h * grid.mask_w = qs

\* The deepest level of the latent of 32 x 10 (4 x 2 positions) on a slot with
\* a mask: out_ip cannot be multiplied by the mask.
C20_Witness ==
    /\ out # NoCall
    /\ out[1].in.original_shape = <<32, 10>> /\ Len(out[1].in.q[1]) = 8
    /\ Called.masks[1] # None
    /\ out[1].error = "RuntimeError: size mismatch"

\* ------------------------------------------------------------------ claims on the encoder
\* C17: in preprocess, for each of the four image weights w_i in [0, 1], the
\* weight the embedding of image i is multiplied by is w_i, or the epsilon
\* 1.19e-05 when w_i is not above it (the multiplication step changes nothing
\* and the floor holds for all four weights): no image is weighted by 0.
C17_WeightFlooredOnly ==
    out # <<>> =>
        \A r \in 1..Len(out[1].clip_embed) :
            LET given == out[1].weights[out[1].clip_embed[r].image] * (WeightOne \div 100)
            IN /\ out[1].clip_embed[r].times = Floored(given)
               /\ out[1].clip_embed[r].times # 0

\* Four images, the first at weight 0.5 and the fourth at weight 0: the first
\* is multiplied by 0.25 and the fourth by 0.
C17_Witness ==
    /\ out # <<>>
    /\ out[1].rows = <<1, 1, 1, 1>> /\ out[1].weights = <<50, 100, 0, 0>>
    /\ out[1].clip_embed[1].times = WeightOne \div 4
    /\ out[1].clip_embed[3].times = Epsilon
    /\ out[1].clip_embed[4].times = 0

\* ------------------------------------------------------------------ claims on the adapter object
\* C11: when get_image_embeds is called twice in a row on one IPAdapter object
\* with the same embeds (zeroed ones among them), the second call returns the
\* token sequences the first returned: nothing the first call leaves behind
\* changes the second projection or keeps it from being made.
C11_ProjectTwice ==
    \A j \in 1..(Len(out) - 1) :
        (out[j].ok /\ out[j + 1].clip_embed = out[j].clip_embed
                  /\ out[j + 1].clip_embed_zeroed = out[j].clip_embed_zeroed)
            => /\ out[j + 1].ok
               /\ out[j + 1].image_prompt_embeds = out[j].image_prompt_embeds
               /\ out[j + 1].uncond_image_prompt_embeds = out[j].uncond_image_prompt_embeds

\* The zeroed embeds were projected, and projected again: the second call raised.
C11_Witness ==
    /\ Len(out) = 2
    /\ out[1].ok /\ out[1].clip_embed.data = <<0>>
    /\ out[2].clip_embed = out[1].clip_embed
    /\ ~out[2].ok /\ out[2].error = "AttributeError"

\* C12: the token sequences apply_ipadapter gets from the variant it chose have
\* the shape (batch, num_tokens, cross_attention_dim), num_tokens being 4 for
\* the linear and the face variants and 16 for the resampler and the dense MLP
\* variants, whatever the sequence length of the embeds.
NumTokens(variant) == IF variant \in {"linear", "faceid"} THEN 4 ELSE 16

\* The slots of the heap that hold the checkpoint of the last apply.
SlotsOfLast == {x \in {<<i, j>> : i \in 1..Len(heap), j \in 1..MaxModels} :
                   /\ x[2] <= Len(heap[x[1]].conds)
                   /\ heap[x[1]].ip_layers[x[2]].state_dict = last.file}

C12_TokensFixed ==
    (last.op = "apply" /\ last.ok) =>
        \A x \in SlotsOfLast :
            LET cond == heap[x[1]].conds[x[2]]
            IN /\ Len(cond.shape) = 3
               /\ cond.shape[2] = NumTokens(last.variant)
               /\ cond.shape[3] = ipadapter.model["ip_adapter"][<<1, "to_k_ip", "weight">>][2]
               /\ heap[x[1]].unconds[x[2]].shape = cond.shape

\* The dense MLP checkpoint was applied: a token per token of the hidden states.
C12_Witness ==
    /\ last.op = "apply" /\ last.ok /\ last.variant = "full"
    /\ SlotsOfLast # {}
    /\ \A x \in SlotsOfLast : heap[x[1]].conds[x[2]].shape = <<1, 257, 768>>

\* C16: an apply_ipadapter call passes every layer key once, with the numbers
\* 0..N-1 in the order of the calls (N = 16 for the non-XL layout, 70 for the
\* XL layout); the number passed for a key is the number the patch under that
\* key was created with, from which its lookup keys 2n+1.to_k_ip and
\* 2n+1.to_v_ip derive, and these are keys of the checkpoint's projections;
\* the patch under a key has that number in every model.
IsXL == ipadapter.model["ip_adapter"][<<1, "to_k_ip", "weight">>][2] = 2048

C16_LayerNumbers ==
    /\ (last.op = "apply" /\ last.ok) =>
          /\ Len(last.installed) = IF IsXL THEN 70 ELSE 16
          /\ \A i \in 1..Len(last.installed) :
                LET key == last.installed[i][1]
                    number == last.installed[i][2]
                    p == heap[attn2[last.model][key]]
                IN /\ number = i - 1
                   /\ \A j \in 1..Len(last.installed) : j # i => last.installed[j][1] # key
                   /\ p.number = number
                   /\ p.k_key = <<2 * number + 1, "to_k_ip">>
                   /\ p.v_key = <<2 * number + 1, "to_v_ip">>
                   /\ {<<p.k_key[1], p.k_key[2], "weight">>, <<p.v_key[1], p.v_key[2], "weight">>}
                         \subseteq DOMAIN ipadapter.model["ip_adapter"]
    /\ \A m1, m2 \in 1..Len(attn2) : \A key \in DOMAIN attn2[m1] \cap DOMAIN attn2[m2] :
          heap[attn2[m1][key]].number = heap[attn2[m2][key]].number

\* The XL checkpoint was applied to a model that carried its patches already:
\* 70 keys, each with a second slot.
C16_Witness ==
    /\ last.op = "apply" /\ last.ok /\ IsXL
    /\ Len(last.installed) = 70
    /\ \A i \in 1..70 : Len(heap[attn2[last.model][last.installed[i][1]]].weights) = 2

\* ------------------------------------------------------------------ claims on the registry
\* The patches reachable from model m's table.
PatchesOf(m) == Range(attn2[m])

NoSharedPatch ==
    \A m1 \in 1..Len(attn2) : \A m2 \in (m1 + 1)..Len(attn2) :
        PatchesOf(m1) \cap PatchesOf(m2) = {}

\* Every model that exists before a step has after it the same keys, the same
\* patch under each and the same slot lists in that patch.
TablesKept ==
    \A m \in 1..Len(attn2) :
        /\ attn2'[m] = attn2[m]
        /\ \A i \in PatchesOf(m) : heap'[i] = heap[i]

\* C2: an apply_ipadapter call leaves the patch table of its input model (and of
\* every other existing model) as it was, keys and slot lists, also when the
\* input model already carries patches; and no patch (hence no slot list) is
\* reachable from the tables of two different models.
C2_CopyOnApply == [](NoSharedPatch) /\ [][TablesKept]_vars

\* An apply succeeded on a model that already carried the patches of an earlier one.
C2_Witness ==
    /\ last.op = "apply" /\ last.ok
    /\ last.src > 1
    /\ DOMAIN attn2[last.src] # {}
    /\ last.model = Len(attn2)
    /\ \E k \in DOMAIN attn2[last.model] : Len(heap[attn2[last.model][k]].weights) = 2

\* C8: apply_ipadapter with a face-identity checkpoint and an image on which no
\* face is found reports a warning and completes, returning a patched model.
C8_NoFaceCompletes ==
    (last.op = "apply" /\ last.faceid /\ last.faces = 0)
        => (last.warning /\ last.ok /\ last.model # 0 /\ DOMAIN attn2[last.model] # {})

\* The call with no face found ended: the warning was printed, then the error.
C8_Witness ==
    /\ last.op = "apply" /\ last.faceid /\ last.faces = 0
    /\ last.warning /\ ~last.ok

\* C9: a shape mismatch between the checkpoint's image_proj weights and the
\* projection module is raised by IPAdapter.__init__ (not by the first
\* projection), and the apply that ends with it changes no model's patch table:
\* no clone is made, no patch is installed.
SizeMismatch == last.op = "apply" /\ last.error = "RuntimeError: size mismatch"

C9_RaisedAtConstruction ==
    /\ [](SizeMismatch => (~last.ok /\ last.stage = "IPAdapter.__init__" /\ last.model = 0))
    /\ [][SizeMismatch' => (attn2' = attn2 /\ heap' = heap)]_vars

\* The linear SD1.5 checkpoint (1024-wide image embeds) was applied with an
\* encoder of another width, on a model that carries patches.
C9_Witness ==
    /\ SizeMismatch
    /\ last.file = "sd15.safetensors"
    /\ DOMAIN attn2[last.src] # {}

\* C10: load_ipadapter_model returns a checkpoint only when its "ip_adapter"
\* namespace is there and not empty, for .safetensors and for other files; a
\* file without it makes the load raise, and no patch ever refers to the
\* weights of such a file.
HasLayerWeights(file) ==
    IF file.safetensors THEN \E k \in DOMAIN file.data : k[1] = "ip_adapter"
    ELSE "ip_adapter" \in DOMAIN file.data /\ DOMAIN file.data["ip_adapter"] # {}

C10_LoadChecked ==
    /\ ipadapter.name # "" =>
          ("ip_adapter" \in DOMAIN ipadapter.model /\ DOMAIN ipadapter.model["ip_adapter"] # {})
    /\ last.op = "load" =>
          /\ last.ok <=> HasLayerWeights(FileNamed(last.file))
          /\ ~last.ok => last.error = "invalid IPAdapter model"
    /\ \A i \in 1..Len(heap) : \A j \in 1..Len(heap[i].ip_layers) :
          HasLayerWeights(FileNamed(heap[i].ip_layers[j].state_dict))

\* A .bin file with an empty namespace was refused after patches were installed
\* from a .safetensors checkpoint.
C10_Witness ==
    /\ last.op = "load" /\ ~last.ok /\ last.file = "emptykv.bin"
    /\ ipadapter.name = "sd15.safetensors"
    /\ heap # <<>>

====
